---- MODULE Spec2Model ----
(***************************************************************************)
(* Model of task_manager/cli.py: the TaskManager store (load_tasks,        *)
(* save_tasks, add_task, update_task, delete_task, mark_task, list_tasks)  *)
(* over one JSON backing file, and two processes sharing that file.        *)
(***************************************************************************)
EXTENDS Integers, Sequences, FiniteSets, TLC

VARIABLES file, phase, tasks, out, wrote, last, prev, cpc, ctasks, ccmd, events

vars == <<file, phase, tasks, out, wrote, last, prev, cpc, ctasks, ccmd, events>>

storeVars == <<phase, tasks, out, wrote, last, prev>>

concVars == <<cpc, ctasks, ccmd, events>>

\* ---------------------------------------------------------------- bounds
MaxTasks == 2

Descs == {"A", "B"}

Ids == 1 .. (MaxTasks + 1)

MarkStatuses == {"in-progress", "done"}

ListFilters == {"", "todo", "in-progress", "done"}

Procs == {1, 2}

\* ------------------------------------------------------- task dictionaries
NewTaskIdFromZero(ts, description) ==
  [id |-> Len(ts), description |-> description, status |-> "todo",
   created_at |-> "", updated_at |-> ""]

MaxId(ts) == IF ts = <<>> THEN 0
             ELSE CHOOSE m \in {ts[i].id : i \in 1 .. Len(ts)} :
                    \A i \in 1 .. Len(ts) : ts[i].id <= m

NewTaskMaxIdPlusOne(ts, description) ==
  [id |-> MaxId(ts) + 1, description |-> description, status |-> "todo",
   created_at |-> "", updated_at |-> ""]

NewTask(ts, description) ==
  [id |-> Len(ts) + 1, description |-> description, status |-> "todo",
   created_at |-> "", updated_at |-> ""]

StampedTask(id, description, status) ==
  [id |-> id, description |-> description, status |-> status,
   created_at |-> "t1", updated_at |-> "t2"]

\* ------------------------------------------------------------- JSON text
JInt(n) == [t |-> "int", n |-> n, s |-> ""]

JStr(s) == [t |-> "str", n |-> 0, s |-> s]

EncodeTask(t) ==
  << <<"id", JInt(t.id)>>,
     <<"description", JStr(t.description)>>,
     <<"status", JStr(t.status)>>,
     <<"created_at", JStr(t.created_at)>>,
     <<"updated_at", JStr(t.updated_at)>> >>

Member(obj, key) ==
  LET i == CHOOSE j \in 1 .. Len(obj) : obj[j][1] = key IN obj[i][2]

DecodeValue(v) == IF v.t = "int" THEN v.n ELSE v.s

DecodeTask(obj) ==
  [id |-> DecodeValue(Member(obj, "id")),
   description |-> DecodeValue(Member(obj, "description")),
   status |-> DecodeValue(Member(obj, "status")),
   created_at |-> DecodeValue(Member(obj, "created_at")),
   updated_at |-> DecodeValue(Member(obj, "updated_at"))]

json_dump(ts) == [kind |-> "json", doc |-> [i \in 1 .. Len(ts) |-> EncodeTask(ts[i])]]

json_load(f) == [i \in 1 .. Len(f.doc) |-> DecodeTask(f.doc[i])]

FileMissing == [kind |-> "missing", doc |-> <<>>]

FileGarbage == [kind |-> "garbage", doc |-> <<>>]

FileBadUtf8 == [kind |-> "badutf8", doc |-> <<>>]

save_tasks_skipped(f, ts) == f

save_tasks_merged(f, ts) ==
  json_dump(SelectSeq(json_load(f), LAMBDA t : \A i \in 1 .. Len(ts) : ts[i] # t) \o ts)

\* open(filename, "w") then json.dump: the whole file is replaced
save_tasks(f, ts) == json_dump(ts)

\* what load_tasks returns, what it leaves in the file, and whether it wrote
LoadResult(f) ==
  CASE f.kind = "missing" ->
         [raised |-> FALSE, tasks |-> <<>>, file |-> save_tasks(f, <<>>), wrote |-> TRUE,
          msg |-> "not found. Creating a new one."]
    [] f.kind = "json" ->
         [raised |-> FALSE, tasks |-> json_load(f), file |-> f, wrote |-> FALSE,
          msg |-> ""]
    [] f.kind = "garbage" ->
         [raised |-> FALSE, tasks |-> <<>>, file |-> save_tasks(f, <<>>), wrote |-> TRUE,
          msg |-> "is corrupted. Resetting."]
    [] OTHER ->
         [raised |-> TRUE, tasks |-> <<>>, file |-> f, wrote |-> FALSE,
          msg |-> "UnicodeDecodeError"]

\* ------------------------------------------------- the store's list edits
FirstMatch(ts, task_id) ==
  IF \E i \in 1 .. Len(ts) : ts[i].id = task_id
  THEN CHOOSE i \in 1 .. Len(ts) :
         /\ ts[i].id = task_id
         /\ \A j \in 1 .. (i - 1) : ts[j].id # task_id
  ELSE 0

Appended(ts, description) == Append(ts, NewTask(ts, description))

UpdatedAllMatches(ts, task_id, description) ==
  [i \in 1 .. Len(ts) |->
     IF ts[i].id = task_id
     THEN [ts[i] EXCEPT !.description = description, !.updated_at = ""]
     ELSE ts[i]]

Updated(ts, task_id, description) ==
  LET i == FirstMatch(ts, task_id) IN
  IF i = 0 THEN ts
  ELSE [ts EXCEPT ![i] = [@ EXCEPT !.description = description, !.updated_at = ""]]

KeepTask(t, task_id) == t.id # task_id

Deleted(ts, task_id) == SelectSeq(ts, LAMBDA t : KeepTask(t, task_id))

ShrunkOrEqual(before, after) == Len(after) <= Len(before)

Shrunk(before, after) == Len(after) < Len(before)

MarkedAllMatches(ts, task_id, status) ==
  [i \in 1 .. Len(ts) |->
     IF ts[i].id = task_id
     THEN [ts[i] EXCEPT !.status = status, !.updated_at = ""]
     ELSE ts[i]]

Marked(ts, task_id, status) ==
  LET i == FirstMatch(ts, task_id) IN
  IF i = 0 THEN ts
  ELSE [ts EXCEPT ![i] = [@ EXCEPT !.status = status, !.updated_at = ""]]

FilteredIgnoringStatus(ts, status) == ts

Filtered(ts, status) ==
  IF status = "" THEN ts ELSE SelectSeq(ts, LAMBDA t : t.status = status)

Line(t) == <<t.id, t.description, t.status>>

Lines(ts) == [i \in 1 .. Len(ts) |-> Line(ts[i])]

\* ------------------------------------------------------ messages and log
Msg(text, task_id, lines) == [msg |-> text, id |-> task_id, lines |-> lines]

Cmd(name, task_id, arg) ==
  [cmd |-> name, id |-> task_id, arg |-> arg, before |-> tasks, fileBefore |-> file]

NoCmd == [cmd |-> "none", id |-> 0, arg |-> "", before |-> <<>>, fileBefore |-> FileMissing]

\* prev keeps the delete command that ran immediately before the last command
Log(c) == /\ last' = c
          /\ prev' = IF last.cmd = "delete" THEN last ELSE NoCmd

\* -------------------------------------------------------- initial files
InitFiles ==
  { FileMissing, FileGarbage, FileBadUtf8,
    json_dump(<<>>),
    json_dump(<<StampedTask(1, "A", "todo")>>),
    json_dump(<<StampedTask(1, "A", "done"), StampedTask(2, "B", "todo")>>) }

EmptyFiles == { FileMissing, json_dump(<<>>) }

InitStore ==
  /\ phase = "start"
  /\ tasks = <<>>
  /\ out = Msg("", 0, <<>>)
  /\ wrote = FALSE
  /\ last = NoCmd
  /\ prev = NoCmd

IdleConc ==
  /\ cpc = [p \in Procs |-> "idle"]
  /\ ctasks = [p \in Procs |-> <<>>]
  /\ ccmd = [p \in Procs |-> NoCmd]
  /\ events = <<>>

Init == /\ file \in InitFiles
        /\ InitStore
        /\ IdleConc

InitEmpty == /\ file \in EmptyFiles
             /\ InitStore
             /\ IdleConc

\* --------------------------------------------------------------- actions
\* TaskManager.__init__: self.tasks = self.load_tasks()
load_tasks ==
  /\ phase = "start"
  /\ LET r == LoadResult(file) IN
       /\ phase' = IF r.raised THEN "crashed" ELSE "ready"
       /\ tasks' = r.tasks
       /\ file' = r.file
       /\ wrote' = r.wrote
       /\ out' = Msg(r.msg, 0, <<>>)
  /\ Log(Cmd("load", 0, ""))
  /\ UNCHANGED concVars

add_task(description) ==
  /\ phase = "ready"
  /\ Len(tasks) < MaxTasks
  /\ tasks' = Appended(tasks, description)
  /\ file' = save_tasks(file, tasks')
  /\ wrote' = TRUE
  /\ out' = Msg("Task added successfully", tasks'[Len(tasks')].id, <<>>)
  /\ Log(Cmd("add", 0, description))
  /\ UNCHANGED <<phase, concVars>>

update_task(task_id, description) ==
  /\ phase = "ready"
  /\ tasks' = Updated(tasks, task_id, description)
  /\ IF FirstMatch(tasks, task_id) # 0
     THEN /\ file' = save_tasks(file, tasks')
          /\ wrote' = TRUE
          /\ out' = Msg("updated", task_id, <<>>)
     ELSE /\ file' = file
          /\ wrote' = FALSE
          /\ out' = Msg("No task found", task_id, <<>>)
  /\ Log(Cmd("update", task_id, description))
  /\ UNCHANGED <<phase, concVars>>

delete_task(task_id) ==
  /\ phase = "ready"
  /\ tasks' = Deleted(tasks, task_id)
  /\ IF Shrunk(tasks, tasks')
     THEN /\ file' = save_tasks(file, tasks')
          /\ wrote' = TRUE
          /\ out' = Msg("deleted", task_id, <<>>)
     ELSE /\ file' = file
          /\ wrote' = FALSE
          /\ out' = Msg("No task found", task_id, <<>>)
  /\ Log(Cmd("delete", task_id, ""))
  /\ UNCHANGED <<phase, concVars>>

mark_task(task_id, status) ==
  /\ phase = "ready"
  /\ tasks' = Marked(tasks, task_id, status)
  /\ IF FirstMatch(tasks, task_id) # 0
     THEN /\ file' = save_tasks(file, tasks')
          /\ wrote' = TRUE
          /\ out' = Msg("marked", task_id, <<>>)
     ELSE /\ file' = file
          /\ wrote' = FALSE
          /\ out' = Msg("No task found", task_id, <<>>)
  /\ Log(Cmd("mark", task_id, status))
  /\ UNCHANGED <<phase, concVars>>

list_tasks(status) ==
  /\ phase = "ready"
  /\ LET filtered == Filtered(tasks, status) IN
       out' = IF filtered = <<>>
              THEN Msg("No tasks found.", 0, <<>>)
              ELSE Msg("", 0, Lines(filtered))
  /\ wrote' = FALSE
  /\ Log(Cmd("list", 0, status))
  /\ UNCHANGED <<file, phase, tasks, concVars>>

\* the one-shot process ends after run(); the next invocation loads again
exit ==
  /\ phase = "ready"
  /\ last.cmd # "load"
  /\ phase' = "start"
  /\ tasks' = <<>>
  /\ UNCHANGED <<file, out, wrote, last, prev, concVars>>

Next ==
  \/ load_tasks
  \/ \E d \in Descs : add_task(d)
  \/ \E i \in Ids, d \in Descs : update_task(i, d)
  \/ \E i \in Ids : delete_task(i)
  \/ \E i \in Ids, s \in MarkStatuses : mark_task(i, s)
  \/ \E s \in ListFilters : list_tasks(s)
  \/ exit

Spec == Init /\ [][Next]_vars

\* ------------------------------------- two processes on one backing file
Apply(c, ts) ==
  CASE c.cmd = "add" -> Appended(ts, c.arg)
    [] c.cmd = "update" -> Updated(ts, c.id, c.arg)
    [] c.cmd = "delete" -> Deleted(ts, c.id)
    [] c.cmd = "mark" -> Marked(ts, c.id, c.arg)
    [] OTHER -> ts

Event(p, step) == [p |-> p, step |-> step, file |-> file]

InitConc ==
  /\ file \in InitFiles
  /\ InitStore
  /\ cpc = [p \in Procs |-> "start"]
  /\ ctasks = [p \in Procs |-> <<>>]
  /\ ccmd = [p \in Procs |-> NoCmd]
  /\ events = <<>>

\* process p constructs its TaskManager
cload(p) ==
  /\ cpc[p] = "start"
  /\ LET r == LoadResult(file) IN
       /\ cpc' = [cpc EXCEPT ![p] = IF r.raised THEN "crashed" ELSE "loaded"]
       /\ ctasks' = [ctasks EXCEPT ![p] = r.tasks]
       /\ file' = r.file
  /\ events' = Append(events, Event(p, "load"))
  /\ UNCHANGED <<ccmd, storeVars>>

\* process p edits its in-memory list; the save is a later step
cedit(p, c) ==
  /\ cpc[p] = "loaded"
  /\ ctasks' = [ctasks EXCEPT ![p] = Apply(c, ctasks[p])]
  /\ ccmd' = [ccmd EXCEPT ![p] = [c EXCEPT !.before = ctasks[p], !.fileBefore = file]]
  /\ UNCHANGED <<file, events, storeVars>>

cadd(p, description) ==
  /\ Len(ctasks[p]) < MaxTasks
  /\ cedit(p, [NoCmd EXCEPT !.cmd = "add", !.arg = description])
  /\ cpc' = [cpc EXCEPT ![p] = "dirty"]

cupdate(p, task_id, description) ==
  /\ cedit(p, [NoCmd EXCEPT !.cmd = "update", !.id = task_id, !.arg = description])
  /\ cpc' = [cpc EXCEPT ![p] = IF FirstMatch(ctasks[p], task_id) # 0 THEN "dirty" ELSE "done"]

cdelete(p, task_id) ==
  /\ cedit(p, [NoCmd EXCEPT !.cmd = "delete", !.id = task_id])
  /\ cpc' = [cpc EXCEPT ![p] = IF Shrunk(ctasks[p], ctasks'[p]) THEN "dirty" ELSE "done"]

cmark(p, task_id, status) ==
  /\ cedit(p, [NoCmd EXCEPT !.cmd = "mark", !.id = task_id, !.arg = status])
  /\ cpc' = [cpc EXCEPT ![p] = IF FirstMatch(ctasks[p], task_id) # 0 THEN "dirty" ELSE "done"]

csave(p) ==
  /\ cpc[p] = "dirty"
  /\ file' = save_tasks(file, ctasks[p])
  /\ cpc' = [cpc EXCEPT ![p] = "done"]
  /\ events' = Append(events, Event(p, "save"))
  /\ UNCHANGED <<ctasks, ccmd, storeVars>>

NextConc ==
  \/ \E p \in Procs : cload(p)
  \/ \E p \in Procs, d \in Descs : cadd(p, d)
  \/ \E p \in Procs, i \in Ids, d \in Descs : cupdate(p, i, d)
  \/ \E p \in Procs, i \in Ids : cdelete(p, i)
  \/ \E p \in Procs, i \in Ids, s \in MarkStatuses : cmark(p, i, s)
  \/ \E p \in Procs : csave(p)

SpecConc == InitConc /\ [][NextConc]_vars

NextNoDelete ==
  \/ load_tasks
  \/ \E d \in Descs : add_task(d)
  \/ \E i \in Ids, d \in Descs : update_task(i, d)
  \/ \E i \in Ids, s \in MarkStatuses : mark_task(i, s)

SpecNoDelete == InitEmpty /\ [][NextNoDelete]_vars

\* ------------------------------------------------------------ properties
Present(ts, task_id) == \E i \in 1 .. Len(ts) : ts[i].id = task_id

HasDuplicateIds(ts) == \E i, j \in 1 .. Len(ts) : i # j /\ ts[i].id = ts[j].id

IdsAreOneToN(ts) == \A i \in 1 .. Len(ts) : ts[i].id = i

\* the positions of ts holding status, and the k-th of them
WithStatus(ts, status) == {i \in 1 .. Len(ts) : ts[i].status = status}

Kth(S, k) == CHOOSE i \in S : Cardinality({j \in S : j <= i}) = k

\* ts minus the single element at position i
Without(ts, i) == [k \in 1 .. (Len(ts) - 1) |-> IF k < i THEN ts[k] ELSE ts[k + 1]]

\* C1: from an empty store, with add, update and mark only, the task at
\* position i has id i, so the ids are 1..N in insertion order and distinct.
C1_IdsFollowInsertionOrder ==
  phase = "ready" => /\ IdsAreOneToN(tasks)
                     /\ ~HasDuplicateIds(tasks)

C1_Witness ==
  /\ phase = "ready"
  /\ Len(tasks) >= 2
  /\ last.cmd = "mark"
  /\ Present(last.before, last.id)
  /\ tasks[2].description = "B"

\* C2: delete(id) with id present removes exactly one task (length drops by
\* one, the others keep their relative order), and a repeated delete(id)
\* leaves the list unchanged.
C2_DeleteRemovesExactlyOne ==
  (phase = "ready" /\ last.cmd = "delete" /\ Present(last.before, last.id)) =>
    /\ Len(tasks) = Len(last.before) - 1
    /\ \E i \in 1 .. Len(last.before) :
         /\ last.before[i].id = last.id
         /\ tasks = Without(last.before, i)
    /\ Deleted(tasks, last.id) = tasks

\* C3 as stated: update(id, text) with id present changes only the
\* description of the matching task; every other field and task is unchanged.
C3_UpdateChangesOnlyDescription ==
  (phase = "ready" /\ last.cmd = "update" /\ Present(last.before, last.id)) =>
    \E i \in 1 .. Len(last.before) :
      /\ last.before[i].id = last.id
      /\ tasks = [last.before EXCEPT ![i] = [@ EXCEPT !.description = last.arg]]

\* C3 amended: update(id, text) with id present sets the description of the
\* first matching task to text and its updated_at to the empty string; its
\* id, status and created_at, the list length and order, and every other
\* task are unchanged.
C3_UpdateChangesDescriptionAndStamp ==
  (phase = "ready" /\ last.cmd = "update" /\ Present(last.before, last.id)) =>
    /\ Len(tasks) = Len(last.before)
    /\ \E i \in 1 .. Len(last.before) :
         /\ last.before[i].id = last.id
         /\ \A j \in 1 .. (i - 1) : last.before[j].id # last.id
         /\ tasks[i].description = last.arg
         /\ tasks[i].updated_at = ""
         /\ tasks[i].id = last.before[i].id
         /\ tasks[i].status = last.before[i].status
         /\ tasks[i].created_at = last.before[i].created_at
         /\ \A j \in 1 .. Len(tasks) : j # i => tasks[j] = last.before[j]

C3_Witness ==
  /\ phase = "ready"
  /\ last.cmd = "update"
  /\ Present(last.before, last.id)
  /\ \E i \in 1 .. Len(tasks) :
       /\ last.before[i].updated_at = "t2"
       /\ last.before[i].description # last.arg
       /\ tasks[i].description = last.arg
       /\ tasks[i].created_at = "t1"

\* C4 as stated: mark(id, status) with id present changes only the status of
\* the matching task; every other field and task is unchanged.
C4_MarkChangesOnlyStatus ==
  (phase = "ready" /\ last.cmd = "mark" /\ Present(last.before, last.id)) =>
    \E i \in 1 .. Len(last.before) :
      /\ last.before[i].id = last.id
      /\ tasks = [last.before EXCEPT ![i] = [@ EXCEPT !.status = last.arg]]

\* C4 amended: mark(id, status) with id present sets the status of the first
\* matching task and its updated_at to the empty string; its id, description
\* and created_at, the list length and order, and every other task are
\* unchanged.
C4_MarkChangesStatusAndStamp ==
  (phase = "ready" /\ last.cmd = "mark" /\ Present(last.before, last.id)) =>
    /\ Len(tasks) = Len(last.before)
    /\ \E i \in 1 .. Len(last.before) :
         /\ last.before[i].id = last.id
         /\ \A j \in 1 .. (i - 1) : last.before[j].id # last.id
         /\ tasks[i].status = last.arg
         /\ tasks[i].updated_at = ""
         /\ tasks[i].id = last.before[i].id
         /\ tasks[i].description = last.before[i].description
         /\ tasks[i].created_at = last.before[i].created_at
         /\ \A j \in 1 .. Len(tasks) : j # i => tasks[j] = last.before[j]

C4_Witness ==
  /\ phase = "ready"
  /\ last.cmd = "mark"
  /\ Present(last.before, last.id)
  /\ \E i \in 1 .. Len(tasks) :
       /\ last.before[i].updated_at = "t2"
       /\ last.before[i].status # last.arg
       /\ tasks[i].status = last.arg
       /\ tasks[i].created_at = "t1"

\* C5: once the store is constructed, and after every completed add, update,
\* delete or mark, the backing file holds exactly the in-memory list (so a
\* fresh load of the file yields the same list), and a command that changed
\* the list wrote the file.
C5_FileEqualsMemory ==
  phase = "ready" =>
    /\ file.kind = "json"
    /\ json_load(file) = tasks
    /\ file = json_dump(tasks)
    /\ ~LoadResult(file).raised
    /\ LoadResult(file).tasks = tasks
    /\ (last.cmd \in {"add", "update", "delete", "mark"} /\ tasks # last.before) => wrote

C5_Witness ==
  /\ phase = "ready"
  /\ last.cmd = "delete"
  /\ prev.cmd = "delete"
  /\ wrote
  /\ Len(tasks) = 1
  /\ tasks[1].updated_at = ""
  /\ tasks[1].created_at = "t1"
  /\ last.fileBefore # file

\* C6: list() yields the stored tasks in stored order, list(status) yields
\* the tasks with that status in stored order, the "no tasks" outcome comes
\* exactly when that selection is empty, and list changes neither the
\* in-memory list nor the file.
C6_ListYieldsSelection ==
  (phase = "ready" /\ last.cmd = "list") =>
    /\ tasks = last.before
    /\ file = last.fileBefore
    /\ ~wrote
    /\ LET S == IF last.arg = "" THEN 1 .. Len(tasks) ELSE WithStatus(tasks, last.arg) IN
         /\ (out.msg = "No tasks found.") <=> (S = {})
         /\ Len(out.lines) = Cardinality(S)
         /\ \A k \in 1 .. Len(out.lines) :
              LET t == tasks[Kth(S, k)] IN out.lines[k] = <<t.id, t.description, t.status>>

C6_Witness ==
  /\ phase = "ready"
  /\ last.cmd = "list"
  /\ last.arg = "done"
  /\ Len(tasks) = 2
  /\ Len(out.lines) = 1
  /\ out.lines[1] = <<2, "B", "done">>

\* C7: update, delete and mark with an id that matches no task end with the
\* not-found outcome, raise nothing, leave the in-memory list unchanged and
\* do not write the backing file.
C7_MissingIdIsNoOp ==
  (last.cmd \in {"update", "delete", "mark"} /\ ~Present(last.before, last.id)
     /\ phase = "ready") =>
    /\ out.msg = "No task found"
    /\ out.id = last.id
    /\ tasks = last.before
    /\ file = last.fileBefore
    /\ ~wrote

C7_Witness ==
  /\ phase = "ready"
  /\ last.cmd = "delete"
  /\ ~Present(last.before, last.id)
  /\ Len(tasks) = 2
  /\ out.msg = "No task found"

\* C8 as stated: after a delete that removed a task followed by an add, two
\* tasks in the store share an id.
C8_DeleteThenAddDuplicates ==
  (phase = "ready" /\ last.cmd = "add" /\ prev.cmd = "delete"
     /\ Present(prev.before, prev.id)) =>
    HasDuplicateIds(tasks)

\* C8 amended: from a store whose ids are 1..N in order, delete(id) of a
\* present id followed by add produces two tasks sharing an id exactly when
\* id < N (the new task gets id N, which the last task still has); deleting
\* the last id N and adding leaves the ids 1..N distinct.
C8_DeleteBelowLastThenAddDuplicates ==
  (phase = "ready" /\ last.cmd = "add" /\ prev.cmd = "delete"
     /\ Present(prev.before, prev.id) /\ IdsAreOneToN(prev.before)) =>
    /\ last.before = Deleted(prev.before, prev.id)
    /\ tasks[Len(tasks)].id = Len(prev.before)
    /\ HasDuplicateIds(tasks) <=> (prev.id < Len(prev.before))

C8_Witness ==
  /\ phase = "ready"
  /\ last.cmd = "add"
  /\ prev.cmd = "delete"
  /\ prev.id = 1
  /\ Len(prev.before) = 2
  /\ IdsAreOneToN(prev.before)
  /\ Len(tasks) = 2
  /\ tasks[1].id = 2
  /\ tasks[2].id = 2

\* C9: loading a missing file or one whose content is not valid JSON yields
\* an empty list and leaves a valid empty array in the file; loading a valid
\* task list returns it and does not write the file.
C9_LoadRecovers ==
  last.cmd = "load" =>
    IF last.fileBefore.kind = "json"
    THEN /\ phase = "ready"
         /\ tasks = json_load(last.fileBefore)
         /\ file = last.fileBefore
         /\ ~wrote
    ELSE /\ phase = "ready"
         /\ tasks = <<>>
         /\ file = json_dump(<<>>)

\* C10: when both processes load before either saves, the file finally
\* holds the list the last writer computed from the originally loaded
\* content alone, whatever the other process did and saved.
C10_LastWriterWins ==
  (/\ \A p \in Procs : cpc[p] = "done"
   /\ Len(events) = 4
   /\ events[1].step = "load"
   /\ events[2].step = "load"
   /\ events[3].step = "save"
   /\ events[4].step = "save") =>
    LET w == events[4].p
        loaded == IF events[1].file.kind = "json" THEN json_load(events[1].file) ELSE <<>>
    IN /\ events[3].p # w
       /\ file = json_dump(Apply(ccmd[w], loaded))

C10_Witness ==
  /\ \A p \in Procs : cpc[p] = "done"
  /\ Len(events) = 4
  /\ events[1].step = "load"
  /\ events[2].step = "load"
  /\ events[1].file = json_dump(<<>>)
  /\ events[3] = [p |-> 1, step |-> "save", file |-> json_dump(<<>>)]
  /\ events[4].p = 2
  /\ ccmd[1].cmd = "add"
  /\ ccmd[1].arg = "A"
  /\ ccmd[2].cmd = "add"
  /\ ccmd[2].arg = "B"
  /\ events[4].file = json_dump(<<NewTask(<<>>, "A")>>)
  /\ Len(file.doc) = 1
  /\ \A i \in 1 .. Len(file.doc) : json_load(file)[i].description # "A"
====
